---- MODULE Spec2Model ----
(***************************************************************************)
(* Message store with response caching (FastAPI + SQLAlchemy + Redis).     *)
(* State: the `messages` table, its id sequence, the Redis keyspace, the   *)
(* clock, and one request slot per worker.  Every blocking call of a       *)
(* handler (Redis, the generator, a database commit) is one step, so the   *)
(* requests of different workers interleave between those calls.           *)
(***************************************************************************)
EXTENDS Integers, Sequences, FiniteSets, TLC

\* ---------------------------------------------------------------- bounds
Workers == {"w1", "w2"}
Contents == {"Hello", "hello"}
\* Rows the id sequence may hand out before the model stops accepting creates.
MaxId == 2
\* Seconds that pass in one step of the clock.
TickStep == 150

\* Expiry passed to setex by cache_response, in seconds.
TTL == 300

\* Defaults of the query parameters of GET /messages/.
DefaultSkip == 1
DefaultLimit == 10
\* The (skip, limit) pairs a client asks for: the defaults, and the first
\* row only.
Pages == {<<DefaultSkip, DefaultLimit>>, <<0, 1>>}

\* Python's None and a present value.
None == <<>>
Some(x) == <<x>>
Val(o) == o[1]

VARIABLES messages, id_seq, redis, req, assigned

vars == <<messages, id_seq, redis, req, assigned>>

\* ------------------------------------------------------- pure functions

\* hashlib.sha256(content.encode('utf-8')).hexdigest()
generate_content_hash(content) ==
    CASE content = "Hello" -> "185f8db32271fe25f561a6fc938b2e264306ec304eda518007d1764826381969"
      [] content = "hello" -> "2cf24dba5fb0a30e26e83b2ac5b9e29e1b161e5c1fa7425e73043362938b9824"

\* Mutant of CacheKey: the key does not depend on the content.
CacheKeyShared(content) == "message:" \o generate_content_hash("Hello")

\* key = f"message:{generate_content_hash(content)}"
CacheKey(content) == "message:" \o generate_content_hash(content)

Keys == {CacheKey(c) : c \in Contents}

\* What the model behind generate_response can answer for a message, after
\* .strip(): a reply that depends on the message, or the empty string.
Replies(message) ==
    IF message = "Hello" THEN {"Hi there", ""} ELSE {"hey"}

\* Redis stores and returns bytes; the handler decodes them.
utf8_encode(s) == [bytes |-> s]
utf8_decode(b) == b.bytes

\* Mutant of Expired: a key is still served when its time has just run out.
ExpiredLate(entry) == entry.ttl < 0

\* Redis' own expiry: each key carries the seconds it has left (what TTL key
\* reports); a key set with setex is gone once they have run out.  An
\* expired key stays in the keyspace with 0 seconds left until it is set
\* again: Redis may reclaim it at any time and no command can tell.
Expired(entry) == entry.ttl <= 0

\* redis_client.get(key): the stored bytes, or None.
redis_get(store, key) ==
    IF store[key] = None \/ Expired(Val(store[key]))
    THEN None
    ELSE Some(Val(store[key]).value)

\* redis_client.setex(key, ttl, value)
redis_setex(store, key, ttl, value) ==
    [store EXCEPT ![key] = Some([value |-> utf8_encode(value), ttl |-> ttl])]

\* The keyspace after `seconds` have passed.
Elapse(store, seconds) ==
    [k \in DOMAIN store |->
        IF store[k] = None THEN None
        ELSE Some([Val(store[k]) EXCEPT
                     !.ttl = IF @ > seconds THEN @ - seconds ELSE 0])]

\* Python truthiness of what redis_client.get returned (`if cached_response:`).
Truthy(got) == got /= None /\ Val(got) /= utf8_encode("")

\* check_cache_for_content: the decoded cached response, or None.
check_cache_for_content(store, content) ==
    LET cached_response == redis_get(store, CacheKey(content))
    IN  IF Truthy(cached_response)
        THEN Some(utf8_decode(Val(cached_response)))
        ELSE None

\* Mutant of cache_response: the key is set only when it is absent.
cache_response_if_absent(store, content, response) ==
    IF store[CacheKey(content)] = None
    THEN redis_setex(store, CacheKey(content), TTL, response)
    ELSE store

\* cache_response: setex under the content's key for 300 seconds.
cache_response(store, content, response) ==
    redis_setex(store, CacheKey(content), TTL, response)

\* `if cached_response:` in send_message.
CacheHit(cached) == cached /= None /\ Val(cached) /= ""

\* Mutant of NextId: one more than the largest id now in the table, which
\* hands a deleted tail's ids out again.
NextIdAfterLargest(table, seq) ==
    IF table = {} THEN 1
    ELSE (CHOOSE i \in {m.id : m \in table} : \A m \in table : m.id <= i) + 1

\* The id the autoincrement primary key gives the next row.
NextId(table, seq) == seq + 1

\* crud.create_message: the row added to the table.
create_message(table, seq, content, response) ==
    [id |-> NextId(table, seq), content |-> content, response |-> response]

\* crud.update_message: the table after the update (unchanged when the id
\* is absent, and the caller then gets None).
update_message(table, message_id, new_content, new_response) ==
    {IF m.id = message_id
     THEN [id |-> m.id, content |-> new_content, response |-> new_response]
     ELSE m : m \in table}

\* crud.update_message: the row as updated, or None when no row has the id.
updated_row(table, message_id, new_content, new_response) ==
    IF \E m \in table : m.id = message_id
    THEN Some([id |-> message_id, content |-> new_content, response |-> new_response])
    ELSE None

\* Mutant of edit_args: content and response passed in each other's place.
edit_args_swapped(r) ==
    [message_id |-> r.message_id, new_content |-> Val(r.response),
     new_response |-> r.content]

\* crud.update_message(db=db, message_id=message_id, new_content=new_content,
\*                     new_response=response) as edit_message calls it.
edit_args(r) ==
    [message_id |-> r.message_id, new_content |-> r.content,
     new_response |-> Val(r.response)]

\* Mutant of EditNotFound: the missing row is not checked.
EditNotFoundNever(message) == FALSE

\* `if not message:` -> 404 in edit_message
EditNotFound(message) == message = None

\* Mutant of SelectFrom: the filter written with > instead of >=.
SelectFromStrict(table, message_id) == {m \in table : m.id > message_id}

\* db.query(Message).filter(Message.id >= message_id).all()
SelectFrom(table, message_id) == {m \in table : m.id >= message_id}

\* for message in messages_to_delete: db.delete(message); db.commit()
\* Each loaded row is deleted by its primary key; `ids` are those keys.
DeleteRows(table, ids) == {m \in table : m.id \notin ids}

\* Mutant of DeleteNotFound: the empty result is not checked.
DeleteNotFoundNever(rows) == FALSE

\* `if not messages_to_delete:` -> 404
DeleteNotFound(rows) == rows = {}

\* The rows of the table in ascending id order.
OrderById(table) ==
    [i \in 1..Cardinality(table) |->
        CHOOSE m \in table : Cardinality({x \in table : x.id < m.id}) = i - 1]

\* crud.get_messages: the rows in id order, OFFSET skip, LIMIT limit.
crud_get_messages(table, skip, limit) ==
    LET ordered == OrderById(table)
        left == IF Len(ordered) > skip THEN Len(ordered) - skip ELSE 0
        n == IF left < limit THEN left ELSE limit
    IN  [i \in 1..n |-> ordered[skip + i]]

\* Mutant of list_args: skip taken as a 1-based position, so the default
\* starts at the first row.
list_args_one_based(skip, limit) ==
    [skip |-> IF skip > 0 THEN skip - 1 ELSE 0, limit |-> limit]

\* crud.get_messages(db, skip=skip, limit=limit): the query parameters are
\* passed on as they came.
list_args(skip, limit) == [skip |-> skip, limit |-> limit]

\* ---------------------------------------------------------------- state

\* What the keyspace held for the key when send_message read it, kept with
\* the request until its row is written: "absent", "expired", or "live"
\* with the stored bytes.
Seen(slot) ==
    IF slot = None THEN [kind |-> "absent", value |-> None]
    ELSE IF Val(slot).ttl > 0 THEN [kind |-> "live", value |-> Some(Val(slot).value)]
    ELSE [kind |-> "expired", value |-> None]

NotRead == [kind |-> "unread", value |-> None]

Idle ==
    [pc |-> "idle", op |-> "none", content |-> "", message_id |-> 0,
     skip |-> 0, limit |-> 0,
     cached_response |-> None, response |-> None, messages_to_delete |-> {},
     status |-> 0, result |-> None, deleted_count |-> 0,
     gen_calls |-> 0, gen_failed |-> FALSE, writes |-> 0,
     cache_failed |-> FALSE, seen |-> NotRead, prior |-> None]

Init ==
    /\ messages = {}
    /\ id_seq = 0
    /\ redis = [k \in Keys |-> None]
    /\ req = [w \in Workers |-> Idle]
    /\ assigned = <<>>

\* A finished request holds its outcome until the response is delivered to
\* the client (Return).  Delivery touches no shared state, so it is taken as
\* the step right after the handler's last one: nothing else runs while an
\* outcome is waiting.
Delivered == \A w \in Workers : req[w].pc /= "done"

Free(w) == Delivered /\ req[w].pc = "idle"

\* Creates that have been accepted and have not appended their row yet.
PendingCreates ==
    Cardinality({w \in Workers : req[w].pc \in {"c_check", "c_hit", "c_gen", "c_append"}})

Finish(r, status, result) ==
    [r EXCEPT !.pc = "done", !.status = status, !.result = result]

\* --------------------------------------------------- POST /messages/

send_message(w, content) ==
    /\ Free(w)
    /\ id_seq + PendingCreates < MaxId
    /\ req' = [req EXCEPT ![w] =
                 [Idle EXCEPT !.pc = "c_check", !.op = "create", !.content = content]]
    /\ UNCHANGED <<messages, id_seq, redis, assigned>>

\* cached_response = check_cache_for_content(message.content)
CheckCache(w) ==
    /\ Delivered
    /\ req[w].pc = "c_check"
    /\ LET cached == check_cache_for_content(redis, req[w].content)
       IN  req' = [req EXCEPT ![w].cached_response = cached,
                              ![w].seen = Seen(redis[CacheKey(req[w].content)]),
                              ![w].pc = IF CacheHit(cached) THEN "c_hit" ELSE "c_gen"]
    /\ UNCHANGED <<messages, id_seq, redis, assigned>>

\* redis_client.get raises: the exception leaves the handler.
CheckCacheFails(w) ==
    /\ Delivered
    /\ req[w].pc = "c_check"
    /\ req' = [req EXCEPT ![w] = Finish([req[w] EXCEPT !.cache_failed = TRUE], 500, None)]
    /\ UNCHANGED <<messages, id_seq, redis, assigned>>

\* crud.create_message(db, message, response=cached_response); return
HitAppend(w) ==
    /\ Delivered
    /\ req[w].pc = "c_hit"
    /\ LET row == create_message(messages, id_seq, req[w].content, Val(req[w].cached_response))
       IN  /\ messages' = messages \cup {row}
           /\ id_seq' = row.id
           /\ assigned' = Append(assigned, row.id)
           /\ req' = [req EXCEPT ![w] = Finish([req[w] EXCEPT !.writes = @ + 1], 200,
                        Some([id |-> row.id, content |-> req[w].content,
                              response |-> Val(req[w].cached_response)]))]
    /\ UNCHANGED redis

\* Mutant of Generate: the first answer is dropped and the call made again.
GenerateRetried(w) ==
    /\ Delivered
    /\ req[w].pc \in {"c_gen", "e_gen"}
    /\ \E r \in Replies(req[w].content) :
         req' = [req EXCEPT ![w].response = Some(r),
                            ![w].gen_calls = @ + 2,
                            ![w].pc = IF req[w].pc = "c_gen" THEN "c_append" ELSE "e_update"]
    /\ UNCHANGED <<messages, id_seq, redis, assigned>>

\* response = generate_response(message.content)
Generate(w) ==
    /\ Delivered
    /\ req[w].pc \in {"c_gen", "e_gen"}
    /\ \E r \in Replies(req[w].content) :
         req' = [req EXCEPT ![w].response = Some(r),
                            ![w].gen_calls = @ + 1,
                            ![w].pc = IF req[w].pc = "c_gen" THEN "c_append" ELSE "e_update"]
    /\ UNCHANGED <<messages, id_seq, redis, assigned>>

\* Mutant of GenerateFails: the exception is swallowed and the handler goes
\* on with an empty response.
GenerateFailsSwallowed(w) ==
    /\ Delivered
    /\ req[w].pc \in {"c_gen", "e_gen"}
    /\ req' = [req EXCEPT ![w].response = Some(""),
                          ![w].gen_calls = @ + 1,
                          ![w].gen_failed = TRUE,
                          ![w].pc = IF req[w].pc = "c_gen" THEN "c_append" ELSE "e_update"]
    /\ UNCHANGED <<messages, id_seq, redis, assigned>>

\* generate_response raises: the exception leaves the handler.
GenerateFails(w) ==
    /\ Delivered
    /\ req[w].pc \in {"c_gen", "e_gen"}
    /\ req' = [req EXCEPT ![w] =
                 Finish([req[w] EXCEPT !.gen_calls = @ + 1, !.gen_failed = TRUE], 500, None)]
    /\ UNCHANGED <<messages, id_seq, redis, assigned>>

\* db_message = crud.create_message(db, message, response)
MissAppend(w) ==
    /\ Delivered
    /\ req[w].pc = "c_append"
    /\ LET row == create_message(messages, id_seq, req[w].content, Val(req[w].response))
       IN  /\ messages' = messages \cup {row}
           /\ id_seq' = row.id
           /\ assigned' = Append(assigned, row.id)
           /\ req' = [req EXCEPT ![w].result = Some(row), ![w].seen = NotRead,
                                  ![w].writes = @ + 1, ![w].pc = "c_put"]
    /\ UNCHANGED redis

\* cache_response(message.content, response); return
CachePut(w) ==
    /\ Delivered
    /\ req[w].pc = "c_put"
    /\ redis' = cache_response(redis, req[w].content, Val(req[w].response))
    /\ req' = [req EXCEPT ![w] = Finish([req[w] EXCEPT !.writes = @ + 1], 200, req[w].result)]
    /\ UNCHANGED <<messages, id_seq, assigned>>

\* redis_client.setex raises: the exception leaves the handler.
CachePutFails(w) ==
    /\ Delivered
    /\ req[w].pc = "c_put"
    /\ req' = [req EXCEPT ![w] = Finish([req[w] EXCEPT !.cache_failed = TRUE], 500, None)]
    /\ UNCHANGED <<messages, id_seq, redis, assigned>>

\* ---------------------------------------------------- GET /messages/

\* messages = crud.get_messages(db, skip=skip, limit=limit); return messages
\* The query is the handler's only call, so the request is one step.
get_messages(w, skip, limit) ==
    /\ Free(w)
    /\ LET a == list_args(skip, limit)
       IN  req' = [req EXCEPT ![w] =
                     Finish([Idle EXCEPT !.op = "list", !.skip = skip, !.limit = limit],
                            200, Some(crud_get_messages(messages, a.skip, a.limit)))]
    /\ UNCHANGED <<messages, id_seq, redis, assigned>>

\* --------------------------------------------- PUT /messages/{message_id}

edit_message(w, message_id, new_content) ==
    /\ Free(w)
    /\ req' = [req EXCEPT ![w] =
                 [Idle EXCEPT !.pc = "e_gen", !.op = "edit",
                              !.message_id = message_id, !.content = new_content]]
    /\ UNCHANGED <<messages, id_seq, redis, assigned>>

\* Mutant of Update: the edit also stores the new response under the new
\* content's key.
UpdateAndCache(w) ==
    /\ Delivered
    /\ req[w].pc = "e_update"
    /\ LET a == edit_args(req[w])
           old == {m \in messages : m.id = a.message_id}
           message == updated_row(messages, a.message_id, a.new_content, a.new_response)
           after == [req[w] EXCEPT
                       !.writes = IF old = {} THEN @ ELSE @ + 1,
                       !.prior = IF old = {} THEN None ELSE Some(CHOOSE m \in old : TRUE)]
       IN  /\ messages' = update_message(messages, a.message_id, a.new_content, a.new_response)
           /\ redis' = cache_response(redis, a.new_content, a.new_response)
           /\ req' = [req EXCEPT ![w] =
                        IF EditNotFound(message)
                        THEN Finish(after, 404, None)
                        ELSE Finish(after, 200, message)]
    /\ UNCHANGED <<id_seq, assigned>>

\* Mutant of Update: a row that is not there is written anew under the
\* requested id.
UpdateUpsert(w) ==
    /\ Delivered
    /\ req[w].pc = "e_update"
    /\ LET a == edit_args(req[w])
           old == {m \in messages : m.id = a.message_id}
           row == [id |-> a.message_id, content |-> a.new_content,
                   response |-> a.new_response]
           after == [req[w] EXCEPT
                       !.writes = @ + 1,
                       !.prior = IF old = {} THEN None ELSE Some(CHOOSE m \in old : TRUE)]
       IN  /\ messages' = (messages \ old) \cup {row}
           /\ req' = [req EXCEPT ![w] = Finish(after, 200, Some(row))]
    /\ UNCHANGED <<id_seq, redis, assigned>>

\* message = crud.update_message(...); if not message: raise 404; return message
Update(w) ==
    /\ Delivered
    /\ req[w].pc = "e_update"
    /\ LET a == edit_args(req[w])
           old == {m \in messages : m.id = a.message_id}
           message == updated_row(messages, a.message_id, a.new_content, a.new_response)
           after == [req[w] EXCEPT
                       !.writes = IF old = {} THEN @ ELSE @ + 1,
                       !.prior = IF old = {} THEN None ELSE Some(CHOOSE m \in old : TRUE)]
       IN  /\ messages' = update_message(messages, a.message_id, a.new_content, a.new_response)
           /\ req' = [req EXCEPT ![w] =
                        IF EditNotFound(message)
                        THEN Finish(after, 404, None)
                        ELSE Finish(after, 200, message)]
    /\ UNCHANGED <<id_seq, redis, assigned>>

\* ------------------------------------------ DELETE /messages/{message_id}

delete_message_and_following(w, message_id) ==
    /\ Free(w)
    /\ req' = [req EXCEPT ![w] =
                 [Idle EXCEPT !.pc = "d_select", !.op = "delete", !.message_id = message_id]]
    /\ UNCHANGED <<messages, id_seq, redis, assigned>>

\* messages_to_delete = db.query(...).all(); if not messages_to_delete: raise 404
Select(w) ==
    /\ Delivered
    /\ req[w].pc = "d_select"
    /\ LET rows == SelectFrom(messages, req[w].message_id)
           ids == {m.id : m \in rows}
       IN  req' = [req EXCEPT ![w] =
                     IF DeleteNotFound(rows)
                     THEN Finish([req[w] EXCEPT !.messages_to_delete = ids], 404, None)
                     ELSE [req[w] EXCEPT !.messages_to_delete = ids, !.pc = "d_commit"]]
    /\ UNCHANGED <<messages, id_seq, redis, assigned>>

\* db.delete(message) for each; db.commit(); return the count
DeleteCommit(w) ==
    /\ Delivered
    /\ req[w].pc = "d_commit"
    /\ messages' = DeleteRows(messages, req[w].messages_to_delete)
    /\ req' = [req EXCEPT ![w] =
                 [Finish(req[w], 200, None) EXCEPT
                    !.writes = @ + 1,
                    !.deleted_count = Cardinality(req[w].messages_to_delete)]]
    /\ UNCHANGED <<id_seq, redis, assigned>>

\* The response (or the error) reaches the client; the worker is free again.
Return(w) ==
    /\ req[w].pc = "done"
    /\ req' = [req EXCEPT ![w] = Idle]
    /\ UNCHANGED <<messages, id_seq, redis, assigned>>

\* ----------------------------------------------------------------- time

Tick ==
    /\ Delivered
    /\ redis' = Elapse(redis, TickStep)
    /\ UNCHANGED <<messages, id_seq, req, assigned>>

Next ==
    \/ \E w \in Workers, c \in Contents : send_message(w, c)
    \/ \E w \in Workers : CheckCache(w)
    \/ \E w \in Workers : CheckCacheFails(w)
    \/ \E w \in Workers : HitAppend(w)
    \/ \E w \in Workers : Generate(w)
    \/ \E w \in Workers : GenerateFails(w)
    \/ \E w \in Workers : MissAppend(w)
    \/ \E w \in Workers : CachePut(w)
    \/ \E w \in Workers : CachePutFails(w)
    \/ \E w \in Workers, p \in Pages : get_messages(w, p[1], p[2])
    \/ \E w \in Workers, i \in 1..MaxId, c \in Contents : edit_message(w, i, c)
    \/ \E w \in Workers : Update(w)
    \/ \E w \in Workers, i \in 1..MaxId : delete_message_and_following(w, i)
    \/ \E w \in Workers : Select(w)
    \/ \E w \in Workers : DeleteCommit(w)
    \/ \E w \in Workers : Return(w)
    \/ Tick

Spec == Init /\ [][Next]_vars

\* The steps of worker w that depend on the server alone: a call to Redis or
\* to the database returns (or raises) and the handler goes on, and a
\* finished request is delivered.  The answer of the generator is not among
\* them: generate_response waits for the remote model and passes no
\* timeout, so how long that call takes is not up to the server.
Advance(w) ==
    \/ CheckCache(w)
    \/ HitAppend(w)
    \/ MissAppend(w)
    \/ CachePut(w)
    \/ Update(w)
    \/ Select(w)
    \/ DeleteCommit(w)
    \/ Return(w)

\* The server keeps running every request it has accepted: a request whose
\* next step can be taken again and again does take it.  (Strong fairness,
\* because a step waits while another request's outcome is being delivered.)
FairSpec == Spec /\ \A w \in Workers : SF_vars(Advance(w))

\* ------------------------------------------------------------ properties

Creates == {w \in Workers : req[w].op = "create"}
Edits == {w \in Workers : req[w].op = "edit"}
Deletes == {w \in Workers : req[w].op = "delete"}

\* The key of `content` holds bytes whose time has not run out.
Unexpired(content) ==
    /\ redis[CacheKey(content)] /= None
    /\ Val(redis[CacheKey(content)]).ttl > 0

\* C1: cache hit avoids generation.  Whenever a create finds an unexpired
\* entry with value R under its content's key, it makes no generator call,
\* stays off the miss path, and when it has finished it has appended exactly
\* one new row (the newest id, its content, R) and returns that row.
C1_CacheHitAvoidsGeneration ==
    \A w \in Creates :
        req[w].seen.kind = "live" =>
            LET R == utf8_decode(Val(req[w].seen.value))
            IN  /\ req[w].gen_calls = 0
                /\ req[w].pc \in {"c_hit", "done"}
                /\ req[w].pc = "done" =>
                     /\ req[w].status = 200
                     /\ req[w].writes = 1
                     /\ req[w].result =
                          Some([id |-> id_seq, content |-> req[w].content, response |-> R])
                     /\ Val(req[w].result) \in messages

\* C2: cache miss invokes generation once.  A create that found no
\* unexpired entry and has returned its row has called the generator once,
\* appended one row (content, generated response) and set the content's key
\* to that response with 300 seconds to live; and a create that finds such
\* an entry still unexpired does not call the generator again.
C2_MissGeneratesOnceThenCaches ==
    \A w \in Creates :
        /\ (req[w].pc = "done" /\ req[w].status = 200 /\ req[w].gen_calls > 0) =>
              /\ req[w].gen_calls = 1
              /\ req[w].writes = 2
              /\ req[w].result = Some([id |-> id_seq, content |-> req[w].content,
                                       response |-> Val(req[w].response)])
              /\ Val(req[w].result) \in messages
              /\ redis[CacheKey(req[w].content)] =
                   Some([value |-> utf8_encode(Val(req[w].response)), ttl |-> 300])
        /\ req[w].seen.kind = "live" => req[w].gen_calls = 0 /\ req[w].pc /= "c_gen"

\* C3: at most one generation per TTL window.  Over every interleaving of
\* creates, no create calls the generator for a content while that content's
\* key holds an unexpired entry: within the window every create of the
\* content is served from the cache.
C3_AtMostOneGenerationPerWindow ==
    [][\A w \in Workers :
          (req[w].pc = "c_gen" /\ req'[w].gen_calls = req[w].gen_calls + 1)
              => ~Unexpired(req[w].content)]_vars

\* A worker takes the step that ends the call it was waiting in at `pc`.
Leaves(w, pc) == req[w].pc = pc /\ req'[w].pc /= pc

Ids(table) == {m.id : m \in table}

\* C4: cascading delete.  deleteFrom(k) loads exactly the rows with id >= k;
\* its commit removes rows with id >= k only, so every row with id < k stays
\* as it was; and when the rows with id >= k are still the ones it loaded
\* (no other request wrote in between), it leaves no row with id >= k and
\* reports as its count the number of rows it removed.
C4_CascadingDelete ==
    [][\A w \in Workers :
          LET k == req[w].message_id
              removed == messages \ messages'
          IN  /\ Leaves(w, "d_select") =>
                   req'[w].messages_to_delete = {i \in Ids(messages) : i >= k}
              /\ Leaves(w, "d_commit") =>
                   /\ messages' \subseteq messages
                   /\ \A m \in removed : m.id >= k
                   /\ {m \in messages : m.id < k} = {m \in messages' : m.id < k}
                   /\ req[w].messages_to_delete = {i \in Ids(messages) : i >= k} =>
                        /\ removed /= {}
                        /\ messages' = {m \in messages : m.id < k}
                        /\ req'[w].status = 200
                        /\ req'[w].deleted_count = Cardinality(removed)]_vars

\* C4 witness: a delete has removed rows and reported their count while a
\* row with a smaller id is still in the table.
C4_Witness ==
    \E w \in Deletes :
        /\ req[w].pc = "done" /\ req[w].status = 200
        /\ req[w].deleted_count = 1
        /\ messages /= {}
        /\ \A m \in messages : m.id < req[w].message_id

\* C5: deleteFrom(k) answers NotFound exactly when its query finds no row
\* with id >= k, and then neither the table nor the cache changes; a delete
\* that found rows never answers NotFound.
C5_DeleteNotFound ==
    [][\A w \in Workers :
          LET k == req[w].message_id
              none == ~(\E m \in messages : m.id >= k)
          IN  /\ Leaves(w, "d_select") =>
                   /\ (req'[w].pc = "done" /\ req'[w].status = 404) <=> none
                   /\ none => messages' = messages /\ redis' = redis
                   /\ ~none => req'[w].pc = "d_commit"
              /\ Leaves(w, "d_commit") => req'[w].status /= 404]_vars

\* C5 witness: a delete was answered NotFound while rows with smaller ids
\* and a cache entry exist, all untouched.
C5_Witness ==
    \E w \in Deletes :
        /\ req[w].pc = "done" /\ req[w].status = 404
        /\ messages /= {}
        /\ \E c \in Contents : Unexpired(c)

\* C6: edit replaces both fields.  When edit(i, N) updates an existing row,
\* the row keeps id i, gets content N and the response its own generator
\* call returned for N; every other row and the number of rows are
\* unchanged, and the updated row is what the request returns.
C6_EditReplacesBothFields ==
    [][\A w \in Workers :
          (Leaves(w, "e_update") /\ req[w].message_id \in Ids(messages)) =>
              LET i == req[w].message_id
                  new == [id |-> i, content |-> req[w].content,
                          response |-> Val(req[w].response)]
              IN  /\ req[w].gen_calls = 1
                  /\ Val(req[w].response) \in Replies(req[w].content)
                  /\ new \in messages'
                  /\ {m \in messages' : m.id /= i} = {m \in messages : m.id /= i}
                  /\ Cardinality(messages') = Cardinality(messages)
                  /\ Ids(messages') = Ids(messages)
                  /\ req'[w].status = 200
                  /\ req'[w].result = Some(new)]_vars

\* C6 witness: an edit has returned a row whose content and response both
\* differ from what the row held before, next to another row.
C6_Witness ==
    \E w \in Edits :
        /\ req[w].pc = "done" /\ req[w].status = 200
        /\ Val(req[w].result) \in messages
        /\ Val(req[w].prior).content /= Val(req[w].result).content
        /\ Val(req[w].prior).response /= Val(req[w].result).response
        /\ Cardinality(messages) = 2

\* C7: edit(i, N) with no row of id i changes neither the table nor the
\* cache at any of its steps, and once its generator call has answered it
\* ends with NotFound and returns no row.
C7_EditNotFound ==
    [][\A w \in Workers :
          (req[w].op = "edit" /\ req'[w] /= req[w]
             /\ req[w].message_id \notin Ids(messages)) =>
              /\ messages' = messages
              /\ redis' = redis
              /\ Leaves(w, "e_update") =>
                   /\ req'[w].pc = "done"
                   /\ req'[w].status = 404
                   /\ req'[w].result = None]_vars

\* C7 witness: an edit of an id that no row has was answered NotFound while
\* the table and the cache hold data.
C7_Witness ==
    \E w \in Edits :
        /\ req[w].pc = "done" /\ req[w].status = 404
        /\ req[w].gen_calls = 1
        /\ messages /= {}
        /\ \E c \in Contents : Unexpired(c)

\* C8: ids are unique and never reused.  Every id the table has handed out
\* is strictly greater than all ids handed out before it, deleted rows'
\* ids included, and no two rows of the table share an id.
C8_IdsNeverReused ==
    /\ \A i, j \in 1..Len(assigned) : i < j => assigned[i] < assigned[j]
    /\ \A m \in messages : \E i \in 1..Len(assigned) : assigned[i] = m.id
    /\ Cardinality(Ids(messages)) = Cardinality(messages)

\* C8 witness: a row was created after the row with id 1 had been deleted,
\* and it did not get id 1 back.
C8_Witness ==
    /\ Len(assigned) = 2
    /\ messages /= {}
    /\ assigned[1] \notin Ids(messages)

\* C9: TTL expiry.  No entry ever has more than 300 seconds left, so 300
\* seconds after it was set its time has run out; and a create that reads
\* its content's key once the entry's time has run out finds nothing, takes
\* the miss path and calls the generator.
C9_TtlExpiry ==
    /\ \A k \in Keys : redis[k] /= None => Val(redis[k]).ttl <= 300
    /\ \A w \in Creates :
          req[w].seen.kind = "expired" =>
              /\ req[w].cached_response = None
              /\ \/ req[w].pc = "c_gen" /\ req[w].gen_calls = 0
                 \/ req[w].pc = "c_append" /\ req[w].gen_calls = 1
                 \/ req[w].pc = "done" /\ req[w].gen_failed /\ req[w].gen_calls = 1

\* C9 witness: a create read an expired entry and its generator call has
\* answered.
C9_Witness ==
    \E w \in Creates :
        /\ req[w].seen.kind = "expired"
        /\ req[w].pc = "c_append"
        /\ req[w].gen_calls = 1

\* C10: generation failure leaves no partial writes.  A create or edit
\* whose generator call failed has ended with a server error, returns no
\* row, and has written neither the table nor the cache.
C10_GenerationFailureNoWrites ==
    \A w \in Workers :
        req[w].gen_failed =>
            /\ req[w].pc = "done"
            /\ req[w].status = 500
            /\ req[w].result = None
            /\ req[w].writes = 0

\* C10 witness: an edit of an existing row failed in the generator while the
\* cache holds an entry.
C10_Witness ==
    \E w \in Edits :
        /\ req[w].gen_failed
        /\ req[w].message_id \in Ids(messages)
        /\ \E c \in Contents : Unexpired(c)

\* C11: cache unavailability is absorbed.  A create whose cache read or
\* cache write failed is not failed by it: the read counts as a miss and the
\* write as a no-op, so the request still calls the generator, appends its
\* row and returns that row.
C11_CacheUnavailableAbsorbed ==
    \A w \in Creates :
        (req[w].pc = "done" /\ req[w].cache_failed /\ ~req[w].gen_failed) =>
            /\ req[w].status = 200
            /\ req[w].gen_calls = 1
            /\ req[w].result /= None
            /\ Val(req[w].result) \in messages

\* C12: overlapping deletes never double-count.  Every deleteFrom that
\* succeeds reports the number of rows its own commit removed, so that over
\* any interleaving of deletes the reported counts add up to the rows that
\* left the table; a commit removes its rows in one step, so no reader sees a
\* range half deleted.
C12_NoDoubleCount ==
    [][\A w \in Workers :
          (Leaves(w, "d_commit") /\ req'[w].status = 200) =>
              req'[w].deleted_count = Cardinality(messages \ messages')]_vars

C14_EveryGenerationCached ==
    \A w \in Workers :
        (req[w].pc = "done" /\ req[w].status = 200 /\ req[w].response /= None) =>
            redis[CacheKey(req[w].content)] =
                Some([value |-> utf8_encode(Val(req[w].response)), ttl |-> 300])

\* C14 amended: every create that returns a generated response has cached
\* it.  The last step of such a create sets its content's key to the
\* generated response with a fresh 300 seconds, creating the entry or
\* overwriting whatever the key held, and leaves the other keys alone; a
\* generation made for an edit is stored in the row only and leaves the
\* keyspace as it was.
C14_CreateGenerationCached ==
    [][\A w \in Workers :
          /\ (Leaves(w, "c_put") /\ req'[w].status = 200) =>
                /\ req[w].response /= None
                /\ redis' = [redis EXCEPT ![CacheKey(req[w].content)] =
                               Some([value |-> utf8_encode(Val(req[w].response)),
                                     ttl |-> 300])]
          /\ (req'[w].pc = "done" /\ req[w].pc /= "done" /\ req'[w].op = "create"
                 /\ req'[w].status = 200 /\ req'[w].gen_calls > 0) =>
                req[w].pc = "c_put"
          /\ (Leaves(w, "e_gen") \/ Leaves(w, "e_update")) => redis' = redis]_vars

\* A create has returned a generated response, now cached with 300 seconds,
\* while the other worker's edit has got a response from the generator that
\* is not what the cache holds for its content.
C14_Witness ==
    \E w \in Creates, v \in Edits :
        /\ req[w].pc = "done" /\ req[w].status = 200 /\ req[w].gen_calls = 1
        /\ req[w].seen = NotRead
        /\ redis[CacheKey(req[w].content)] =
             Some([value |-> utf8_encode(Val(req[w].response)), ttl |-> 300])
        /\ req[v].pc = "e_update"
        /\ redis[CacheKey(req[v].content)] /=
             Some([value |-> utf8_encode(Val(req[v].response)), ttl |-> 300])

Lists == {w \in Workers : req[w].op = "list"}

\* C15: the default page of a non-empty history is not empty.  Whenever
\* history holds at least one row, a list called with the default skip and
\* limit returns at least one row.
C15_DefaultListNonEmpty ==
    \A w \in Lists :
        (req[w].pc = "done" /\ req[w].skip = DefaultSkip /\ req[w].limit = DefaultLimit
            /\ messages /= {}) =>
            Val(req[w].result) /= <<>>

AppendsOne(w, response) ==
    \E row \in messages' :
        /\ row \notin messages
        /\ messages' = messages \cup {row}
        /\ row.content = req[w].content
        /\ row.response = response

\* C17: order of the steps of one create.  The first step of a create is
\* its one cache read, which writes nothing.  On a hit the next and last step
\* appends one row with the cached response: no generator call, no cache
\* write.  On a miss the request calls the generator once, then appends one
\* row with the generated response, then writes the cache, in that order, so
\* the cache is written only by a request whose row is already in history.
\* No create steps back, and none calls the generator twice.
C17_CreateStepOrder ==
    [][\A w \in Workers :
          /\ req'[w].op = "create" => req'[w].gen_calls <= 1
          /\ (req[w].op = "none" /\ req'[w].op = "create") =>
                req'[w].pc = "c_check" /\ req'[w].gen_calls = 0 /\ req'[w].writes = 0
          /\ Leaves(w, "c_check") =>
                /\ req'[w].pc \in {"c_hit", "c_gen", "done"}
                /\ messages' = messages /\ redis' = redis
                /\ req'[w].gen_calls = 0 /\ req'[w].writes = 0
                /\ req'[w].pc = "c_hit" => req'[w].cached_response /= None
                /\ req'[w].pc = "done" => req'[w].status = 500
          /\ Leaves(w, "c_hit") =>
                /\ req'[w].pc = "done" /\ req'[w].status = 200
                /\ req'[w].gen_calls = 0
                /\ redis' = redis
                /\ AppendsOne(w, Val(req[w].cached_response))
          /\ Leaves(w, "c_gen") =>
                /\ req'[w].pc \in {"c_append", "done"}
                /\ messages' = messages /\ redis' = redis
                /\ req[w].gen_calls = 0 /\ req'[w].gen_calls = 1
                /\ req'[w].pc = "done" => req'[w].status = 500
          /\ Leaves(w, "c_append") =>
                /\ req'[w].pc = "c_put"
                /\ redis' = redis
                /\ AppendsOne(w, Val(req[w].response))
          /\ Leaves(w, "c_put") =>
                /\ req'[w].pc = "done"
                /\ messages' = messages
                /\ req[w].gen_calls = 1 /\ req[w].writes = 1 /\ req[w].result /= None
                /\ IF req'[w].status = 200
                   THEN redis' = cache_response(redis, req[w].content, Val(req[w].response))
                   ELSE redis' = redis
          /\ (req[w].op = "create" /\ redis' /= redis /\ req'[w] /= req[w]) =>
                req[w].pc = "c_put"]_vars

\* A create has finished on the hit path (no generator call, one write, the
\* row) on an entry that an earlier create left at the end of its miss path.
C17_Witness ==
    \E w \in Creates :
        /\ req[w].pc = "done" /\ req[w].status = 200
        /\ req[w].seen.kind = "live"
        /\ req[w].gen_calls = 0 /\ req[w].writes = 1
        /\ Len(assigned) = 2
        /\ \E m \in messages : m.id = 1 /\ m.content = req[w].content

\* C18: deleteFrom is atomic with respect to creates.  At the step where a
\* deleteFrom(k) commits, every row with id >= k that was in history before
\* that step is removed by it, so none is left, and the count it reports is
\* the number of rows with id >= k that the step removed.
C18_DeleteAtomicAgainstCreates ==
    [][\A w \in Workers :
          (Leaves(w, "d_commit") /\ req'[w].status = 200) =>
              /\ \A m \in messages' : m.id < req[w].message_id
              /\ req'[w].deleted_count =
                   Cardinality({m \in messages \ messages' : m.id >= req[w].message_id})]_vars

\* C19: the lookup answers absent only for a missing or expired entry.  For
\* every content and every stored response, the empty string included, a
\* create that reads the key while the entry is unexpired gets that response
\* back and takes the hit path; it gets nothing back only when the key is
\* absent or has expired.
C19_LookupAbsentOnlyWhenMissing ==
    \A w \in Creates :
        /\ req[w].seen.kind = "live" =>
              /\ req[w].cached_response = Some(utf8_decode(Val(req[w].seen.value)))
              /\ req[w].pc \in {"c_hit", "done"}
        /\ req[w].seen.kind \in {"absent", "expired"} => req[w].cached_response = None

C21_FailedCreateLeavesNothing ==
    [][\A w \in Workers :
          (req[w].op = "create" /\ req[w].pc /= "done"
             /\ req'[w].pc = "done" /\ req'[w].status /= 200) =>
              /\ req'[w].writes = 0
              /\ redis' = redis
              /\ \A m \in messages' :
                    req[w].result = Some(m) => m \notin messages']_vars

\* C22: response provenance.  In every reachable state each row's response
\* is a value the generator returns for that row's current content, never
\* one generated for another content, and the value under each cache key is
\* a generator output for the content the key is the fingerprint of.
C22_ResponseProvenance ==
    /\ \A m \in messages : m.response \in Replies(m.content)
    /\ \A c \in Contents :
          redis[CacheKey(c)] /= None =>
              utf8_decode(Val(redis[CacheKey(c)]).value) \in Replies(c)

\* History holds two rows, an edit has just given one of them a content
\* other than the one it had, with the response generated for the new
\* content, and the cache holds an unexpired entry.
C22_Witness ==
    \E w \in Edits :
        /\ req[w].pc = "done" /\ req[w].status = 200
        /\ Val(req[w].prior).content /= Val(req[w].result).content
        /\ Val(req[w].result) \in messages
        /\ Cardinality(messages) = 2
        /\ \E c \in Contents : Unexpired(c)

\* C23: edit never adds or resurrects a row.  No step of an edit changes the
\* set of ids in history; an edit succeeds only on a row that is there when
\* its update runs, and fails with 404, writing nothing, when a delete has
\* removed the row first; and the commit of a deleteFrom leaves none of the
\* rows it loaded, edited in the meantime or not.  So after an edit(i, N)
\* and a deleteFrom(k) that loaded row i have both finished, whatever their
\* order, no row with id i exists.
C23_EditNeverResurrects ==
    [][\A w \in Workers :
          /\ (req[w].op = "edit" /\ req'[w] /= req[w]) => Ids(messages') = Ids(messages)
          /\ Leaves(w, "e_update") =>
                IF req[w].message_id \in Ids(messages)
                THEN req'[w].status = 200
                ELSE req'[w].status = 404 /\ messages' = messages
          /\ Leaves(w, "d_commit") =>
                /\ Ids(messages') = Ids(messages) \ req[w].messages_to_delete
                /\ \A v \in Edits :
                      req[v].message_id \in req[w].messages_to_delete =>
                          req[v].message_id \notin Ids(messages')]_vars

\* An edit of row i has been applied while a deleteFrom that loaded row i is
\* about to commit.
C23_Witness ==
    \E w \in Edits, v \in Deletes :
        /\ req[w].pc = "done" /\ req[w].status = 200
        /\ Val(req[w].prior) /= Val(req[w].result)
        /\ req[v].pc = "d_commit"
        /\ req[v].message_id <= req[w].message_id
        /\ req[w].message_id \in req[v].messages_to_delete

====
